---- MODULE Spec2Model ----
(***************************************************************************)
(* Model of the two-tier analysis cache of backend/index.js (POST          *)
(* /api/analyze) and of backend/services/ai.js (analyzeGap).               *)
(*                                                                         *)
(* Strings are kept run-length encoded: a string is a sequence of runs     *)
(* <<character, count>> in which adjacent runs carry different characters. *)
(* The handler is an async function: the code between two awaits runs      *)
(* without interleaving, so each action below is one such stretch, and the *)
(* database executes a query in a step of its own between the request being *)
(* sent and the continuation being resumed.                                *)
(***************************************************************************)
EXTENDS Integers, Sequences, FiniteSets, TLC

VARIABLES memoryCache, db, now, restarts, req, obs

vars == <<memoryCache, db, now, restarts, req, obs>>

----------------------------------------------------------------------------
(* Bounds of the model *)

NumReqs == 2
MaxTicks == 2
MaxRestarts == 1

Reqs == 1..NumReqs

----------------------------------------------------------------------------
(* Program constants *)

CACHE_TTL == 1000 * 60 * 60 * 24

MIN_LENGTH == 50

MAX_SKILLS == 10

NUM_STEPS == 3

NUM_QUESTIONS == 3

(* The clock advances in steps of half a TTL, so that an age of exactly    *)
(* CACHE_TTL occurs. *)
TickStep == CACHE_TTL \div 2

----------------------------------------------------------------------------
(* Optional values *)

None == <<>>

Some(v) == <<v>>

IsSome(o) == o # <<>>

Val(o) == o[1]

----------------------------------------------------------------------------
(* JavaScript strings, run-length encoded *)

RECURSIVE RunsLength(_)
RunsLength(rs) == IF rs = <<>> THEN 0 ELSE rs[1][2] + RunsLength(Tail(rs))

IsSpace(ch) == ch \in {" ", "\t", "\n"}

LowerChar(ch) ==
    CASE ch = "A" -> "a"
      [] ch = "B" -> "b"
      [] OTHER -> ch

RECURSIVE Canon(_)
Canon(rs) ==
    IF Len(rs) < 2 THEN rs
    ELSE IF rs[1][1] = rs[2][1]
         THEN Canon(<<(<<rs[1][1], rs[1][2] + rs[2][2]>>)>> \o Tail(Tail(rs)))
         ELSE <<rs[1]>> \o Canon(Tail(rs))

RECURSIVE TrimStart(_)
TrimStart(rs) ==
    IF rs # <<>> /\ IsSpace(rs[1][1]) THEN TrimStart(Tail(rs)) ELSE rs

RECURSIVE TrimEnd(_)
TrimEnd(rs) ==
    IF rs # <<>> /\ IsSpace(rs[Len(rs)][1])
    THEN TrimEnd(SubSeq(rs, 1, Len(rs) - 1))
    ELSE rs

Trim(rs) == TrimEnd(TrimStart(rs))

ToLowerCase(rs) == Canon([i \in 1..Len(rs) |-> <<LowerChar(rs[i][1]), rs[i][2]>>])

(* A request body field: a string, an array (JSON allows it) or absent. *)
Str(rs) == [kind |-> "string", runs |-> rs, length |-> RunsLength(rs)]

Arr(n) == [kind |-> "array", runs |-> <<>>, length |-> n]

Undefined == [kind |-> "undefined", runs |-> <<>>, length |-> 0]

(* !x of JavaScript for the values above: undefined and "" are falsy. *)
Falsy(x) == x.kind = "undefined" \/ (x.kind = "string" /\ x.length = 0)

----------------------------------------------------------------------------
(* The request bodies the clients send *)

TextA == Str(<< <<"a", 60>> >>)

TextAUpperPadded == Str(<< <<" ", 2>>, <<"A", 60>>, <<"\n", 1>> >>)

TextB == Str(<< <<"b", 60>> >>)

TextAInner == Str(<< <<"a", 30>>, <<" ", 1>>, <<"a", 30>> >>)

TextShort == Str(<< <<"a", 40>> >>)

TextEmpty == Str(<<>>)

TextArray == Arr(60)

Bodies ==
    << [resumeText |-> TextA, jobDescText |-> TextB],
       [resumeText |-> TextAUpperPadded, jobDescText |-> TextB],
       [resumeText |-> TextB, jobDescText |-> TextA],
       [resumeText |-> TextShort, jobDescText |-> TextB],
       [resumeText |-> TextA, jobDescText |-> Undefined],
       [resumeText |-> TextArray, jobDescText |-> TextB] >>

BodyIds == 1..Len(Bodies)

----------------------------------------------------------------------------
(* Key derivation *)

(* crypto.createHash('sha256').update(s).digest('hex'): deterministic and, *)
(* on the strings of the model, collision free.  The digest is kept as the *)
(* tagged string it was computed from. *)
Sha256Hex(rs) == <<"sha256", rs>>

(* Variant: the text is trimmed but its case is kept. *)
NormalizeTrimOnly(rs) == Trim(rs)

Normalize(rs) == ToLowerCase(Trim(rs))

HashText(text) == Sha256Hex(Normalize(text.runs))

(* Variant: the key does not tell which hash is which. *)
CacheKeyOfUnordered(resumeHash, jobDescHash) == <<{resumeHash, jobDescHash}>>

CacheKeyOf(resumeHash, jobDescHash) == <<resumeHash, ":", jobDescHash>>

(* Variant: the length check is left out. *)
ValidateMissingOnly(body) ==
    IF Falsy(body.resumeText) \/ Falsy(body.jobDescText) THEN "missing" ELSE "ok"

(* The checks of the handler before hashing, in the order of the code. *)
Validate(body) ==
    IF Falsy(body.resumeText) \/ Falsy(body.jobDescText) THEN "missing"
    ELSE IF body.resumeText.length < MIN_LENGTH \/ body.jobDescText.length < MIN_LENGTH
         THEN "short"
         ELSE "ok"

(* x.trim() exists on strings only; on any other value it is a TypeError. *)
TrimThrows(body) ==
    body.resumeText.kind # "string" \/ body.jobDescText.kind # "string"

----------------------------------------------------------------------------
(* Error messages are sequences of words; includes() is the test for a     *)
(* contiguous subsequence. *)

Includes(msg, phrase) ==
    \E i \in 1..(Len(msg) - Len(phrase) + 1) :
        SubSeq(msg, i, i + Len(phrase) - 1) = phrase

MsgMalformed == <<"AI", "returned", "malformed", "data.", "Please", "try", "again.">>

MsgServicePrefix == <<"AI", "Service", "Failed:">>

MsgTypeError == <<"resumeText.trim", "is", "not", "a", "function">>

MsgSyntaxError == <<"Unexpected", "token", "is", "not", "valid", "JSON">>

ErrorResponse(status, code) ==
    [status |-> status, code |-> code, data |-> None]

(* The outer catch of the handler. *)
CatchAll(msg) ==
    IF Includes(msg, <<"malformed">>) THEN ErrorResponse(422, "AI_VALIDATION_ERROR")
    ELSE IF Includes(msg, <<"AI", "Service", "Failed:">>)
         THEN ErrorResponse(503, "AI_SERVICE_ERROR")
         ELSE ErrorResponse(500, "INTERNAL_ERROR")

ValidationResponse == ErrorResponse(400, "VALIDATION_ERROR")

(* res.json(data) *)
OkResponse(data) == [status |-> 200, code |-> "OK", data |-> Some(data)]

----------------------------------------------------------------------------
(* The AI collaborator and analyzeGap *)

Step(n) == [title |-> n, description |-> "project"]

Analysis(skills, steps, questions) ==
    [missingSkills |-> skills, learningSteps |-> steps, interviewQuestions |-> questions]

ThreeSteps == <<Step("s1"), Step("s2"), Step("s3")>>

ThreeQuestions == <<"q1", "q2", "q3">>

GoodDocker == Analysis(<<"docker">>, ThreeSteps, ThreeQuestions)

GoodKube == Analysis(<<"docker", "kubernetes">>, ThreeSteps, ThreeQuestions)

BadNoSkills == Analysis(<<>>, ThreeSteps, ThreeQuestions)

BadTwoSteps == Analysis(<<"docker">>, <<Step("s1"), Step("s2")>>, ThreeQuestions)

(* What ai.models.generateContent can do: throw with some message, return  *)
(* text that is no JSON, or return JSON text of some value. *)
AiThrow(msg) == [kind |-> "throw", message |-> msg, value |-> GoodDocker]

AiGarbage == [kind |-> "garbage", message |-> <<>>, value |-> GoodDocker]

AiJson(v) == [kind |-> "json", message |-> <<>>, value |-> v]

AiBehaviours ==
    { AiJson(GoodDocker), AiJson(GoodKube), AiJson(BadNoSkills), AiJson(BadTwoSteps),
      AiGarbage,
      AiThrow(<<"fetch", "failed">>), AiThrow(<<"malformed", "request">>) }

AnalysisSchema(v) ==
    /\ Len(v.missingSkills) >= 1
    /\ Len(v.missingSkills) <= MAX_SKILLS
    /\ Len(v.learningSteps) = NUM_STEPS
    /\ Len(v.interviewQuestions) = NUM_QUESTIONS

(* analyzeGap: the validated value, or the Error it throws. *)
analyzeGap(ai) ==
    IF ai.kind = "throw"
    THEN [ok |-> FALSE, message |-> MsgServicePrefix \o ai.message, value |-> ai.value]
    ELSE IF ai.kind = "garbage"
         THEN [ok |-> FALSE, message |-> MsgServicePrefix \o MsgSyntaxError, value |-> ai.value]
         ELSE IF AnalysisSchema(ai.value)
              THEN [ok |-> TRUE, message |-> <<>>, value |-> ai.value]
              ELSE [ok |-> FALSE, message |-> MsgMalformed, value |-> ai.value]

----------------------------------------------------------------------------
(* MemoryTier: a JavaScript Map *)

MapHas(m, k) == k \in DOMAIN m

MapSet(m, k, v) == [x \in (DOMAIN m) \cup {k} |-> IF x = k THEN v ELSE m[x]]

EmptyMap == [x \in {} |-> None]

MemEntry(data, ts) == [data |-> data, timestamp |-> ts]

(* Variant: the probe never hits. *)
MemHitNever(m, k, t) == MapHas(m, k) /\ FALSE

(* Variant: <= in place of <. *)
MemHitInclusive(m, k, t) == MapHas(m, k) /\ t - m[k].timestamp <= CACHE_TTL

(* memCached && (Date.now() - memCached.timestamp < CACHE_TTL) *)
MemHit(m, k, t) == MapHas(m, k) /\ t - m[k].timestamp < CACHE_TTL

----------------------------------------------------------------------------
(* PersistentTier: the analysis table, unique on (resumeHash, jobDescHash) *)

Row(id, createdAt, resumeHash, jobDescHash, v) ==
    [id |-> id, createdAt |-> createdAt, resumeHash |-> resumeHash,
     jobDescHash |-> jobDescHash, missingSkills |-> v.missingSkills,
     learningSteps |-> v.learningSteps, interviewQuestions |-> v.interviewQuestions,
     cached |-> None]

(* Variant: {cached: c, ...row}, a flag already in the row wins. *)
WithCachedSpreadLast(row, c) ==
    IF IsSome(row.cached) THEN row ELSE [row EXCEPT !.cached = Some(c)]

(* {...row, cached: c} *)
WithCached(row, c) == [row EXCEPT !.cached = Some(c)]

RowsOf(table, resumeHash, jobDescHash) ==
    {x \in table : x.resumeHash = resumeHash /\ x.jobDescHash = jobDescHash}

(* Variant: the two hashes are passed in the wrong order. *)
FindUniqueSwapped(table, resumeHash, jobDescHash) ==
    IF RowsOf(table, jobDescHash, resumeHash) = {} THEN None
    ELSE Some(CHOOSE x \in RowsOf(table, jobDescHash, resumeHash) : TRUE)

FindUnique(table, resumeHash, jobDescHash) ==
    IF RowsOf(table, resumeHash, jobDescHash) = {} THEN None
    ELSE Some(CHOOSE x \in RowsOf(table, resumeHash, jobDescHash) : TRUE)

UniqueViolation(table, resumeHash, jobDescHash) ==
    RowsOf(table, resumeHash, jobDescHash) # {}

Payload(x) ==
    [missingSkills |-> x.missingSkills, learningSteps |-> x.learningSteps,
     interviewQuestions |-> x.interviewQuestions]

----------------------------------------------------------------------------
(* State *)

(* The locals of one run of the handler.  pc is the await the run is       *)
(* suspended at; reply is the answer of the database that the run has not  *)
(* yet been resumed with. *)
InitReq ==
    [pc |-> "idle", body |-> 0, resumeHash |-> None, jobDescHash |-> None,
     reply |-> None, dbAvailable |-> TRUE, responseData |-> None, res |-> None]

(* What an observer of one run records: the calls made to the hash, to the *)
(* two tiers and to analyzeGap, how the database answered, and the         *)
(* circumstances of the arrival: the time, the number of restarts so far,  *)
(* the runs that had responded, the age of the Map's entry for the key (-1 *)
(* without one), whether the table had a row for the key, and whether the  *)
(* Map's entry and the table's row then carried different analyses. *)
InitObs ==
    [hashCalls |-> 0, memGets |-> 0, memSets |-> 0, dbFinds |-> 0, dbCreates |-> 0,
     computeCalls |-> 0, findError |-> "", createError |-> "", aiOutcome |-> "",
     arrivedAt |-> 0, finishedAt |-> 0, epoch |-> 0, after |-> {},
     memAge |-> -1, dbHadRow |-> FALSE, disagreed |-> FALSE]

Init ==
    /\ memoryCache = EmptyMap
    /\ db = {}
    /\ now = 0
    /\ restarts = 0
    /\ req = [r \in Reqs |-> InitReq]
    /\ obs = [r \in Reqs |-> InitObs]

CacheKey(r) == CacheKeyOf(Val(req[r].resumeHash), Val(req[r].jobDescHash))

Finished(r) == req[r].pc = "done"

InFlight(r) == req[r].pc \in {"find", "found", "ai", "create", "created"}

(* The locals of a run that has responded are gone; the hashes are kept to *)
(* tell which key the run was for. *)
Respond(q, response) ==
    [q EXCEPT !.pc = "done", !.reply = None, !.responseData = None, !.res = Some(response)]

----------------------------------------------------------------------------
(* POST /api/analyze, from the arrival of the request to the first await *)

(* Variant: a memory hit renews the timestamp of the entry it served. *)
ReceiveTouchOnHit(r, b) ==
    LET body == Bodies[b]
        rh == HashText(body.resumeText)
        jh == HashText(body.jobDescText)
        key == CacheKeyOf(rh, jh)
        arrived == [obs[r] EXCEPT !.arrivedAt = now, !.epoch = restarts,
                                  !.after = {q \in Reqs : Finished(q)},
                                  !.finishedAt = now]
        seen == [arrived EXCEPT !.hashCalls = 2, !.memGets = 1,
                                !.memAge = IF MapHas(memoryCache, key)
                                           THEN now - memoryCache[key].timestamp
                                           ELSE -1,
                                !.dbHadRow = RowsOf(db, rh, jh) # {},
                                !.disagreed =
                                    /\ MapHas(memoryCache, key)
                                    /\ \E x \in RowsOf(db, rh, jh) :
                                          Payload(x) # Payload(memoryCache[key].data)]
    IN
    /\ req[r].pc = "idle"
    /\ \A q \in Reqs : q < r => req[q].pc # "idle"
    /\ UNCHANGED <<db, now, restarts>>
    /\ memoryCache' = IF Validate(body) = "ok" /\ ~TrimThrows(body)
                         /\ MemHit(memoryCache, key, now)
                      THEN MapSet(memoryCache, key, MemEntry(memoryCache[key].data, now))
                      ELSE memoryCache
    /\ IF Validate(body) # "ok"
       THEN /\ req' = [req EXCEPT ![r] = Respond([@ EXCEPT !.body = b], ValidationResponse)]
            /\ obs' = [obs EXCEPT ![r] = arrived]
       ELSE IF TrimThrows(body)
       THEN /\ req' = [req EXCEPT ![r] = Respond([@ EXCEPT !.body = b], CatchAll(MsgTypeError))]
            /\ obs' = [obs EXCEPT ![r] =
                         [arrived EXCEPT !.hashCalls =
                            IF body.resumeText.kind = "string" THEN 1 ELSE 0]]
       ELSE IF MemHit(memoryCache, key, now)
       THEN /\ req' = [req EXCEPT ![r] =
                         Respond([@ EXCEPT !.body = b, !.resumeHash = Some(rh),
                                           !.jobDescHash = Some(jh)],
                                 OkResponse(WithCached(memoryCache[key].data, TRUE)))]
            /\ obs' = [obs EXCEPT ![r] = seen]
       ELSE /\ req' = [req EXCEPT ![r] =
                         [@ EXCEPT !.pc = "find", !.body = b, !.resumeHash = Some(rh),
                                   !.jobDescHash = Some(jh)]]
            /\ obs' = [obs EXCEPT ![r] = [seen EXCEPT !.dbFinds = 1]]

Receive(r, b) ==
    LET body == Bodies[b]
        rh == HashText(body.resumeText)
        jh == HashText(body.jobDescText)
        key == CacheKeyOf(rh, jh)
        arrived == [obs[r] EXCEPT !.arrivedAt = now, !.epoch = restarts,
                                  !.after = {q \in Reqs : Finished(q)},
                                  !.finishedAt = now]
        seen == [arrived EXCEPT !.hashCalls = 2, !.memGets = 1,
                                !.memAge = IF MapHas(memoryCache, key)
                                           THEN now - memoryCache[key].timestamp
                                           ELSE -1,
                                !.dbHadRow = RowsOf(db, rh, jh) # {},
                                !.disagreed =
                                    /\ MapHas(memoryCache, key)
                                    /\ \E x \in RowsOf(db, rh, jh) :
                                          Payload(x) # Payload(memoryCache[key].data)]
    IN
    /\ req[r].pc = "idle"
    /\ \A q \in Reqs : q < r => req[q].pc # "idle"
    /\ UNCHANGED <<memoryCache, db, now, restarts>>
    /\ IF Validate(body) # "ok"
       THEN /\ req' = [req EXCEPT ![r] = Respond([@ EXCEPT !.body = b], ValidationResponse)]
            /\ obs' = [obs EXCEPT ![r] = arrived]
       ELSE IF TrimThrows(body)
       THEN /\ req' = [req EXCEPT ![r] = Respond([@ EXCEPT !.body = b], CatchAll(MsgTypeError))]
            /\ obs' = [obs EXCEPT ![r] =
                         [arrived EXCEPT !.hashCalls =
                            IF body.resumeText.kind = "string" THEN 1 ELSE 0]]
       ELSE IF MemHit(memoryCache, key, now)
       THEN /\ req' = [req EXCEPT ![r] =
                         Respond([@ EXCEPT !.body = b, !.resumeHash = Some(rh),
                                           !.jobDescHash = Some(jh)],
                                 OkResponse(WithCached(memoryCache[key].data, TRUE)))]
            /\ obs' = [obs EXCEPT ![r] = seen]
       ELSE /\ req' = [req EXCEPT ![r] =
                         [@ EXCEPT !.pc = "find", !.body = b, !.resumeHash = Some(rh),
                                   !.jobDescHash = Some(jh)]]
            /\ obs' = [obs EXCEPT ![r] = [seen EXCEPT !.dbFinds = 1]]

----------------------------------------------------------------------------
(* The database executes prisma.analysis.findUnique, or cannot be reached *)

DbFindUnique(r) ==
    /\ req[r].pc = "find"
    /\ \/ /\ req' = [req EXCEPT ![r].pc = "found",
                                ![r].reply = Some([error |-> "none",
                                    row |-> FindUnique(db, Val(req[r].resumeHash),
                                                       Val(req[r].jobDescHash))])]
          /\ obs' = [obs EXCEPT ![r].findError = "none"]
       \/ /\ req' = [req EXCEPT ![r].pc = "found",
                                ![r].reply = Some([error |-> "unavailable", row |-> None])]
          /\ obs' = [obs EXCEPT ![r].findError = "unavailable"]
    /\ UNCHANGED <<memoryCache, db, now, restarts>>

(* Variant: an unreachable database fails the request (no inner try). *)
AfterFindFailFast(r) ==
    LET reply == Val(req[r].reply) IN
    /\ req[r].pc = "found"
    /\ UNCHANGED <<db, now, restarts>>
    /\ IF reply.error = "none" /\ IsSome(reply.row)
       THEN /\ memoryCache' = MapSet(memoryCache, CacheKey(r), MemEntry(Val(reply.row), now))
            /\ req' = [req EXCEPT ![r] = Respond(@, OkResponse(WithCached(Val(reply.row), TRUE)))]
            /\ obs' = [obs EXCEPT ![r].memSets = @ + 1, ![r].finishedAt = now]
       ELSE IF reply.error # "none"
       THEN /\ req' = [req EXCEPT ![r] =
                         Respond(@, CatchAll(<<"Can't", "reach", "database", "server">>))]
            /\ obs' = [obs EXCEPT ![r].finishedAt = now]
            /\ UNCHANGED memoryCache
       ELSE /\ req' = [req EXCEPT ![r].pc = "ai", ![r].reply = None]
            /\ obs' = [obs EXCEPT ![r].computeCalls = @ + 1]
            /\ UNCHANGED memoryCache

(* Variant: a row found in the table is returned but not put in the Map. *)
AfterFindNoWriteBack(r) ==
    LET reply == Val(req[r].reply) IN
    /\ req[r].pc = "found"
    /\ UNCHANGED <<db, now, restarts, memoryCache>>
    /\ IF reply.error = "none" /\ IsSome(reply.row)
       THEN /\ req' = [req EXCEPT ![r] = Respond(@, OkResponse(WithCached(Val(reply.row), TRUE)))]
            /\ obs' = [obs EXCEPT ![r].finishedAt = now]
       ELSE /\ req' = [req EXCEPT ![r].pc = "ai", ![r].reply = None,
                                  ![r].dbAvailable = (reply.error = "none")]
            /\ obs' = [obs EXCEPT ![r].computeCalls = @ + 1]

(* Variant: single flight, a run that missed the table while another run  *)
(* is already computing for the key looks the key up again instead.       *)
AfterFindSingleFlight(r) ==
    LET reply == Val(req[r].reply)
        busy == \E q \in Reqs \ {r} :
                    /\ req[q].pc \in {"ai", "create", "created"}
                    /\ req[q].resumeHash = req[r].resumeHash
                    /\ req[q].jobDescHash = req[r].jobDescHash
    IN
    /\ req[r].pc = "found"
    /\ UNCHANGED <<db, now, restarts>>
    /\ IF reply.error = "none" /\ IsSome(reply.row)
       THEN /\ memoryCache' = MapSet(memoryCache, CacheKey(r), MemEntry(Val(reply.row), now))
            /\ req' = [req EXCEPT ![r] = Respond(@, OkResponse(WithCached(Val(reply.row), TRUE)))]
            /\ obs' = [obs EXCEPT ![r].memSets = @ + 1, ![r].finishedAt = now]
       ELSE IF busy
       THEN /\ req' = [req EXCEPT ![r].pc = "find", ![r].reply = None]
            /\ UNCHANGED <<obs, memoryCache>>
       ELSE /\ req' = [req EXCEPT ![r].pc = "ai", ![r].reply = None,
                                  ![r].dbAvailable = (reply.error = "none")]
            /\ obs' = [obs EXCEPT ![r].computeCalls = @ + 1]
            /\ UNCHANGED memoryCache

(* The handler resumes after findUnique and runs to the call of analyzeGap *)
AfterFind(r) ==
    LET reply == Val(req[r].reply) IN
    /\ req[r].pc = "found"
    /\ UNCHANGED <<db, now, restarts>>
    /\ IF reply.error = "none" /\ IsSome(reply.row)
       THEN /\ memoryCache' = MapSet(memoryCache, CacheKey(r), MemEntry(Val(reply.row), now))
            /\ req' = [req EXCEPT ![r] = Respond(@, OkResponse(WithCached(Val(reply.row), TRUE)))]
            /\ obs' = [obs EXCEPT ![r].memSets = @ + 1, ![r].finishedAt = now]
       ELSE /\ req' = [req EXCEPT ![r].pc = "ai", ![r].reply = None,
                                  ![r].dbAvailable = (reply.error = "none")]
            /\ obs' = [obs EXCEPT ![r].computeCalls = @ + 1]
            /\ UNCHANGED memoryCache

----------------------------------------------------------------------------
(* analyzeGap settles; the handler resumes and runs to prisma.analysis.create, *)
(* or to the response when the database was found unavailable *)

(* crypto.randomUUID(): no two runs draw the same identifier. *)
RandomUUID(r) == <<"uuid", r>>

(* The identifier the database gives the row it inserts. *)
RowId(r) == <<"row", r>>

(* What the observer records of the answer of the AI: JSON of the expected *)
(* shape, JSON of another shape, text that is no JSON, or a thrown error. *)
AiOutcome(ai) ==
    IF ai.kind = "throw" THEN "throw"
    ELSE IF ai.kind = "garbage" THEN "garbage"
         ELSE IF AnalysisSchema(ai.value) THEN "valid" ELSE "invalid"

(* Variant: without a reachable database the result is not kept in the Map. *)
AiSettlesSkipMemoryWhenDegraded(r, ai) ==
    LET out == analyzeGap(ai)
        responseData == WithCached(Row(RandomUUID(r), now, Val(req[r].resumeHash),
                                       Val(req[r].jobDescHash), out.value), FALSE)
    IN
    /\ req[r].pc = "ai"
    /\ UNCHANGED <<db, now, restarts, memoryCache>>
    /\ IF ~out.ok
       THEN /\ req' = [req EXCEPT ![r] = Respond(@, CatchAll(out.message))]
            /\ obs' = [obs EXCEPT ![r].aiOutcome = AiOutcome(ai), ![r].finishedAt = now]
       ELSE IF req[r].dbAvailable
       THEN /\ req' = [req EXCEPT ![r].pc = "create", ![r].responseData = Some(responseData)]
            /\ obs' = [obs EXCEPT ![r].aiOutcome = AiOutcome(ai), ![r].dbCreates = @ + 1]
       ELSE /\ req' = [req EXCEPT ![r] = Respond(@, OkResponse(responseData))]
            /\ obs' = [obs EXCEPT ![r].aiOutcome = AiOutcome(ai), ![r].finishedAt = now]

(* Variant: the Map is written before the outcome of analyzeGap is looked at. *)
AiSettlesCacheOnError(r, ai) ==
    LET out == analyzeGap(ai)
        responseData == WithCached(Row(RandomUUID(r), now, Val(req[r].resumeHash),
                                       Val(req[r].jobDescHash), out.value), FALSE)
    IN
    /\ req[r].pc = "ai"
    /\ UNCHANGED <<db, now, restarts>>
    /\ IF ~out.ok
       THEN /\ memoryCache' = MapSet(memoryCache, CacheKey(r), MemEntry(responseData, now))
            /\ req' = [req EXCEPT ![r] = Respond(@, CatchAll(out.message))]
            /\ obs' = [obs EXCEPT ![r].aiOutcome = AiOutcome(ai), ![r].memSets = @ + 1, ![r].finishedAt = now]
       ELSE IF req[r].dbAvailable
       THEN /\ req' = [req EXCEPT ![r].pc = "create", ![r].responseData = Some(responseData)]
            /\ obs' = [obs EXCEPT ![r].aiOutcome = AiOutcome(ai), ![r].dbCreates = @ + 1]
            /\ UNCHANGED memoryCache
       ELSE /\ memoryCache' = MapSet(memoryCache, CacheKey(r), MemEntry(responseData, now))
            /\ req' = [req EXCEPT ![r] = Respond(@, OkResponse(responseData))]
            /\ obs' = [obs EXCEPT ![r].aiOutcome = AiOutcome(ai), ![r].memSets = @ + 1, ![r].finishedAt = now]

(* Variant: the Map is written as soon as analyzeGap returns, before create. *)
AiSettlesMemoryFirst(r, ai) ==
    LET out == analyzeGap(ai)
        responseData == WithCached(Row(RandomUUID(r), now, Val(req[r].resumeHash),
                                       Val(req[r].jobDescHash), out.value), FALSE)
    IN
    /\ req[r].pc = "ai"
    /\ UNCHANGED <<db, now, restarts>>
    /\ IF ~out.ok
       THEN /\ req' = [req EXCEPT ![r] = Respond(@, CatchAll(out.message))]
            /\ obs' = [obs EXCEPT ![r].aiOutcome = AiOutcome(ai), ![r].finishedAt = now]
            /\ UNCHANGED memoryCache
       ELSE IF req[r].dbAvailable
       THEN /\ memoryCache' = MapSet(memoryCache, CacheKey(r), MemEntry(responseData, now))
            /\ req' = [req EXCEPT ![r].pc = "create", ![r].responseData = Some(responseData)]
            /\ obs' = [obs EXCEPT ![r].aiOutcome = AiOutcome(ai), ![r].memSets = @ + 1,
                                  ![r].dbCreates = @ + 1]
       ELSE /\ memoryCache' = MapSet(memoryCache, CacheKey(r), MemEntry(responseData, now))
            /\ req' = [req EXCEPT ![r] = Respond(@, OkResponse(responseData))]
            /\ obs' = [obs EXCEPT ![r].aiOutcome = AiOutcome(ai), ![r].memSets = @ + 1, ![r].finishedAt = now]

(* Variant: no outer catch, a throwing analyzeGap leaves the request with *)
(* no response. *)
AiSettlesNoCatch(r, ai) ==
    LET out == analyzeGap(ai)
        responseData == WithCached(Row(RandomUUID(r), now, Val(req[r].resumeHash),
                                       Val(req[r].jobDescHash), out.value), FALSE)
    IN
    /\ req[r].pc = "ai"
    /\ UNCHANGED <<db, now, restarts>>
    /\ IF ~out.ok
       THEN /\ req' = [req EXCEPT ![r].pc = "hung"]
            /\ obs' = [obs EXCEPT ![r].aiOutcome = AiOutcome(ai)]
            /\ UNCHANGED memoryCache
       ELSE IF req[r].dbAvailable
       THEN /\ req' = [req EXCEPT ![r].pc = "create", ![r].responseData = Some(responseData)]
            /\ obs' = [obs EXCEPT ![r].aiOutcome = AiOutcome(ai), ![r].dbCreates = @ + 1]
            /\ UNCHANGED memoryCache
       ELSE /\ memoryCache' = MapSet(memoryCache, CacheKey(r), MemEntry(responseData, now))
            /\ req' = [req EXCEPT ![r] = Respond(@, OkResponse(responseData))]
            /\ obs' = [obs EXCEPT ![r].aiOutcome = AiOutcome(ai), ![r].memSets = @ + 1, ![r].finishedAt = now]

AiSettles(r, ai) ==
    LET out == analyzeGap(ai)
        responseData == WithCached(Row(RandomUUID(r), now, Val(req[r].resumeHash),
                                       Val(req[r].jobDescHash), out.value), FALSE)
    IN
    /\ req[r].pc = "ai"
    /\ UNCHANGED <<db, now, restarts>>
    /\ IF ~out.ok
       THEN /\ req' = [req EXCEPT ![r] = Respond(@, CatchAll(out.message))]
            /\ obs' = [obs EXCEPT ![r].aiOutcome = AiOutcome(ai), ![r].finishedAt = now]
            /\ UNCHANGED memoryCache
       ELSE IF req[r].dbAvailable
       THEN /\ req' = [req EXCEPT ![r].pc = "create", ![r].responseData = Some(responseData)]
            /\ obs' = [obs EXCEPT ![r].aiOutcome = AiOutcome(ai), ![r].dbCreates = @ + 1]
            /\ UNCHANGED memoryCache
       ELSE /\ memoryCache' = MapSet(memoryCache, CacheKey(r), MemEntry(responseData, now))
            /\ req' = [req EXCEPT ![r] = Respond(@, OkResponse(responseData))]
            /\ obs' = [obs EXCEPT ![r].aiOutcome = AiOutcome(ai), ![r].memSets = @ + 1, ![r].finishedAt = now]

----------------------------------------------------------------------------
(* The database executes prisma.analysis.create, or cannot be reached *)

(* Variant: an upsert, the new row takes the place of the one of its key. *)
InsertUpsert(table, row) ==
    [error |-> "none", row |-> Some(row),
     table |-> (table \ RowsOf(table, row.resumeHash, row.jobDescHash)) \cup {row}]

(* The insert under the unique index on (resumeHash, jobDescHash). *)
Insert(table, row) ==
    IF UniqueViolation(table, row.resumeHash, row.jobDescHash)
    THEN [error |-> "unique", row |-> None, table |-> table]
    ELSE [error |-> "none", row |-> Some(row), table |-> table \cup {row}]

DbCreate(r) ==
    LET data == Val(req[r].responseData)
        done == Insert(db, Row(RowId(r), now, data.resumeHash, data.jobDescHash, data))
    IN
    /\ req[r].pc = "create"
    /\ \/ /\ db' = done.table
          /\ req' = [req EXCEPT ![r].pc = "created",
                                ![r].reply = Some([error |-> done.error, row |-> done.row])]
          /\ obs' = [obs EXCEPT ![r].createError = done.error]
       \/ /\ db' = db
          /\ req' = [req EXCEPT ![r].pc = "created",
                                ![r].reply = Some([error |-> "unavailable", row |-> None])]
          /\ obs' = [obs EXCEPT ![r].createError = "unavailable"]
    /\ UNCHANGED <<memoryCache, now, restarts>>

(* Variant: memoryCache.set sits inside the try, after create. *)
AfterCreateSetInsideTry(r) ==
    LET reply == Val(req[r].reply) IN
    /\ req[r].pc = "created"
    /\ UNCHANGED <<db, now, restarts>>
    /\ IF reply.error = "none"
       THEN /\ memoryCache' = MapSet(memoryCache, CacheKey(r),
                                     MemEntry(WithCached(Val(reply.row), FALSE), now))
            /\ req' = [req EXCEPT ![r] =
                         Respond(@, OkResponse(WithCached(Val(reply.row), FALSE)))]
            /\ obs' = [obs EXCEPT ![r].memSets = @ + 1, ![r].finishedAt = now]
       ELSE /\ req' = [req EXCEPT ![r] = Respond(@, OkResponse(Val(req[r].responseData)))]
            /\ obs' = [obs EXCEPT ![r].finishedAt = now]
            /\ UNCHANGED memoryCache

(* Variant: no catch (saveError); a failed create reaches the outer catch. *)
AfterCreateRethrow(r) ==
    LET reply == Val(req[r].reply) IN
    /\ req[r].pc = "created"
    /\ UNCHANGED <<db, now, restarts>>
    /\ IF reply.error = "none"
       THEN /\ memoryCache' = MapSet(memoryCache, CacheKey(r),
                                     MemEntry(WithCached(Val(reply.row), FALSE), now))
            /\ req' = [req EXCEPT ![r] =
                         Respond(@, OkResponse(WithCached(Val(reply.row), FALSE)))]
            /\ obs' = [obs EXCEPT ![r].memSets = @ + 1, ![r].finishedAt = now]
       ELSE /\ req' = [req EXCEPT ![r] =
                         Respond(@, CatchAll(<<"Unique", "constraint", "failed">>))]
            /\ obs' = [obs EXCEPT ![r].finishedAt = now]
            /\ UNCHANGED memoryCache

(* The handler resumes after create (or in catch (saveError)) and responds *)
AfterCreate(r) ==
    LET reply == Val(req[r].reply)
        responseData == IF reply.error = "none"
                        THEN WithCached(Val(reply.row), FALSE)
                        ELSE Val(req[r].responseData)
    IN
    /\ req[r].pc = "created"
    /\ memoryCache' = MapSet(memoryCache, CacheKey(r), MemEntry(responseData, now))
    /\ req' = [req EXCEPT ![r] = Respond(@, OkResponse(responseData))]
    /\ obs' = [obs EXCEPT ![r].memSets = @ + 1, ![r].finishedAt = now]
    /\ UNCHANGED <<db, now, restarts>>

----------------------------------------------------------------------------
(* The environment: time passes; the process is restarted *)

Tick ==
    /\ now < MaxTicks * TickStep
    /\ now' = now + TickStep
    /\ UNCHANGED <<memoryCache, db, restarts, req, obs>>

(* Variant: the Map survives the restart. *)
RestartKeepsMap ==
    /\ restarts < MaxRestarts
    /\ restarts' = restarts + 1
    /\ req' = [r \in Reqs |-> IF InFlight(r)
                             THEN [req[r] EXCEPT !.pc = "dead", !.reply = None,
                                                 !.responseData = None]
                             ELSE req[r]]
    /\ UNCHANGED <<memoryCache, db, now, obs>>

(* A restart empties the module-level Map and abandons the runs in flight; *)
(* the table survives. *)
Restart ==
    /\ restarts < MaxRestarts
    /\ restarts' = restarts + 1
    /\ memoryCache' = EmptyMap
    /\ req' = [r \in Reqs |-> IF InFlight(r)
                             THEN [req[r] EXCEPT !.pc = "dead", !.reply = None,
                                                 !.responseData = None]
                             ELSE req[r]]
    /\ UNCHANGED <<db, now, obs>>

Next ==
    \/ \E r \in Reqs, b \in BodyIds : Receive(r, b)
    \/ \E r \in Reqs : DbFindUnique(r)
    \/ \E r \in Reqs : AfterFind(r)
    \/ \E r \in Reqs, ai \in AiBehaviours : AiSettles(r, ai)
    \/ \E r \in Reqs : DbCreate(r)
    \/ \E r \in Reqs : AfterCreate(r)
    \/ Tick
    \/ Restart

Spec == Init /\ [][Next]_vars

----------------------------------------------------------------------------
(* Vocabulary of the properties *)

HasKey(r) == IsSome(req[r].resumeHash) /\ IsSome(req[r].jobDescHash)

SameKey(a, b) == HasKey(a) /\ HasKey(b) /\ CacheKey(a) = CacheKey(b)

Status(r) == Val(req[r].res).status

Code(r) == Val(req[r].res).code

Succeeded(r) == Finished(r) /\ Status(r) = 200

ResData(r) == Val(Val(req[r].res).data)

Cached(r) == Val(ResData(r).cached)

(* The key of the run was in neither tier when the run arrived. *)
BrandNew(r) == HasKey(r) /\ obs[r].memAge = -1 /\ ~obs[r].dbHadRow

(* b was called after a had responded, in the same process. *)
CalledAfter(a, b) ==
    /\ Finished(a)
    /\ req[b].pc # "idle"
    /\ a \in obs[b].after
    /\ obs[a].epoch = obs[b].epoch

(* No run other than a and b worked on their key before b responded. *)
Alone(a, b) ==
    \A q \in Reqs \ {a, b} : (HasKey(q) /\ SameKey(q, a)) => (Finished(b) /\ b \in obs[q].after)

(* Time between the response of a and the call of b. *)
Gap(a, b) == obs[b].arrivedAt - obs[a].finishedAt

----------------------------------------------------------------------------
(* C1: when a valid pair whose key is in neither tier is resolved twice,   *)
(* the second call directly after the first has responded (no other run on *)
(* the key, no restart, less than the TTL between them) and the compute of *)
(* the first call succeeds, then the first response has cached = false,    *)
(* the second has cached = true and the same missingSkills, learningSteps  *)
(* and interviewQuestions, and compute was invoked once in total. *)
C1_Twice(a, b) ==
    /\ a # b
    /\ BrandNew(a)
    /\ Succeeded(a)
    /\ SameKey(a, b)
    /\ CalledAfter(a, b)
    /\ Finished(b)
    /\ Alone(a, b)
    /\ Gap(a, b) < CACHE_TTL

C1_SecondCallIsCached ==
    \A a, b \in Reqs :
        C1_Twice(a, b) =>
            /\ ~Cached(a)
            /\ Succeeded(b)
            /\ Cached(b)
            /\ Payload(ResData(b)) = Payload(ResData(a))
            /\ obs[a].computeCalls + obs[b].computeCalls = 1

C1_Witness ==
    \E a, b \in Reqs :
        /\ C1_Twice(a, b)
        /\ Cached(b)
        /\ obs[a].createError = "unavailable"
        /\ req[a].body # req[b].body

----------------------------------------------------------------------------
(* C2: for every key, an unexpired entry of the Map and the row of the     *)
(* table for that key hold the same missingSkills, learningSteps and       *)
(* interviewQuestions. *)
C2_TiersAgree ==
    \A k \in DOMAIN memoryCache :
        \A x \in db :
            (MemHit(memoryCache, k, now) /\ CacheKeyOf(x.resumeHash, x.jobDescHash) = k)
                => Payload(memoryCache[k].data) = Payload(x)

----------------------------------------------------------------------------
(* C3: a run whose create failed with the uniqueness violation writes to   *)
(* the Map, and returns, the payload of the row the table holds for its    *)
(* key. *)
C3_UniqueViolationConverges ==
    [][\A r \in Reqs :
          (/\ req[r].pc = "created"
           /\ Val(req[r].reply).error = "unique"
           /\ req'[r].pc = "done")
          => \E x \in RowsOf(db', Val(req[r].resumeHash), Val(req[r].jobDescHash)) :
                /\ Payload(memoryCache'[CacheKey(r)].data) = Payload(x)
                /\ Payload(Val(Val(req'[r].res).data)) = Payload(x)]_vars

----------------------------------------------------------------------------
(* C4: the table never holds two rows for one key; and when two runs for a *)
(* key that was in neither tier when each arrived both had their create    *)
(* executed by the database, the table holds exactly one row for the key,  *)
(* at least one of the two creates failed on the unique index, and both    *)
(* runs responded 200 with cached = false. *)
C4_Race(a, b) ==
    /\ a # b
    /\ SameKey(a, b)
    /\ BrandNew(a)
    /\ BrandNew(b)
    /\ Finished(a)
    /\ Finished(b)
    /\ obs[a].createError \in {"none", "unique"}
    /\ obs[b].createError \in {"none", "unique"}

C4_OneRowBothSucceed ==
    /\ \A x, y \in db :
          (x.resumeHash = y.resumeHash /\ x.jobDescHash = y.jobDescHash) => x = y
    /\ \A a, b \in Reqs :
          C4_Race(a, b) =>
              /\ Cardinality(RowsOf(db, Val(req[a].resumeHash), Val(req[a].jobDescHash))) = 1
              /\ "unique" \in {obs[a].createError, obs[b].createError}
              /\ Succeeded(a) /\ ~Cached(a)
              /\ Succeeded(b) /\ ~Cached(b)

C4_Witness ==
    \E a, b \in Reqs :
        /\ C4_Race(a, b)
        /\ obs[a].createError = "unique"
        /\ obs[b].createError = "none"
        /\ Payload(ResData(a)) # Payload(ResData(b))

----------------------------------------------------------------------------
(* C5: a run that arrives while the Map holds an entry for its key younger *)
(* than the TTL responds at once with that entry's data and cached = true, *)
(* having sent no findUnique, no create and no analyzeGap call, and leaves *)
(* both tiers as they were. *)
C5_MemoryHitTouchesNothing ==
    [][\A r \in Reqs :
          (/\ req[r].pc = "idle"
           /\ req'[r].pc # "idle"
           /\ IsSome(req'[r].resumeHash)
           /\ IsSome(req'[r].jobDescHash)
           /\ LET k == CacheKeyOf(Val(req'[r].resumeHash), Val(req'[r].jobDescHash))
              IN  k \in DOMAIN memoryCache /\ now - memoryCache[k].timestamp < CACHE_TTL)
          => LET k == CacheKeyOf(Val(req'[r].resumeHash), Val(req'[r].jobDescHash))
             IN  /\ req'[r].pc = "done"
                 /\ req'[r].res = Some(OkResponse(WithCached(memoryCache[k].data, TRUE)))
                 /\ obs'[r].dbFinds = 0
                 /\ obs'[r].dbCreates = 0
                 /\ obs'[r].computeCalls = 0
                 /\ db' = db
                 /\ memoryCache' = memoryCache]_vars

C5_Witness ==
    \E r \in Reqs :
        /\ Succeeded(r)
        /\ Cached(r)
        /\ obs[r].memAge > 0
        /\ obs[r].memAge < CACHE_TTL
        /\ obs[r].dbFinds = 0
        /\ obs[r].computeCalls = 0

----------------------------------------------------------------------------
(* C6 *)

(* a found the database unreachable and responded 200; b, for the same key *)
(* and with no other run on it, was called after a had responded, had no   *)
(* database call fail as unreachable, and the table had no row for the key. *)
C6_DegradedThenRecovered(a, b) ==
    /\ a # b
    /\ HasKey(a)
    /\ obs[a].findError = "unavailable"
    /\ Succeeded(a)
    /\ SameKey(a, b)
    /\ a \in obs[b].after
    /\ Finished(b)
    /\ Alone(a, b)
    /\ ~obs[b].dbHadRow
    /\ obs[b].findError # "unavailable"
    /\ obs[b].createError # "unavailable"

(* C6 as claimed: after a call during which the database was unreachable   *)
(* and which responded with a fresh result, a later call for the same key, *)
(* made once the database is reachable again, invokes compute again and,   *)
(* when it succeeds, responds cached = false. *)
C6_RecomputesAfterRecovery ==
    \A a, b \in Reqs :
        C6_DegradedThenRecovered(a, b) =>
            /\ ~Cached(a)
            /\ obs[a].computeCalls = 1
            /\ obs[b].computeCalls = 1
            /\ Status(b) \in {200, 422, 503}
            /\ Succeeded(b) => ~Cached(b)

(* C6 as amended: the call made while the database was unreachable         *)
(* responds with a fresh result and stores it in the Map only; a later     *)
(* call for the same key never fails because of the database: while the    *)
(* entry is younger than the TTL and the process has not restarted it is   *)
(* served from the Map (cached = true, same payload, no compute, no        *)
(* database call), and otherwise it invokes compute again and, when it     *)
(* succeeds, responds cached = false. *)
C6_DegradedResultServedFromMemory ==
    \A a, b \in Reqs :
        C6_DegradedThenRecovered(a, b) =>
            /\ ~Cached(a)
            /\ obs[a].computeCalls = 1
            /\ obs[a].dbCreates = 0
            /\ IF obs[a].epoch = obs[b].epoch /\ Gap(a, b) < CACHE_TTL
               THEN /\ Succeeded(b)
                    /\ Cached(b)
                    /\ Payload(ResData(b)) = Payload(ResData(a))
                    /\ obs[b].computeCalls = 0
                    /\ obs[b].dbFinds = 0
               ELSE /\ obs[b].computeCalls = 1
                    /\ Status(b) \in {200, 422, 503}
                    /\ Succeeded(b) => ~Cached(b)

C6_Witness ==
    \E a, b \in Reqs :
        /\ C6_DegradedThenRecovered(a, b)
        /\ Cached(b)
        /\ Gap(a, b) > 0

----------------------------------------------------------------------------
(* C7: every response is a 200 or one of the four structured errors; a run *)
(* whose findUnique found the database unreachable, or whose create failed *)
(* (unreachable, or unique violation), still responds 200 with a fresh     *)
(* result unless its compute failed; every error response comes from the   *)
(* checks before any tier is touched or from a failed compute. *)
C7_Responses ==
    { <<200, "OK">>, <<400, "VALIDATION_ERROR">>, <<422, "AI_VALIDATION_ERROR">>,
      <<503, "AI_SERVICE_ERROR">>, <<500, "INTERNAL_ERROR">> }

C7_StoreFailuresAbsorbed ==
    \A r \in Reqs :
        Finished(r) =>
            /\ <<Status(r), Code(r)>> \in C7_Responses
            /\ obs[r].createError \in {"unavailable", "unique"}
                  => (Succeeded(r) /\ ~Cached(r))
            /\ obs[r].findError = "unavailable"
                  => ((Succeeded(r) /\ ~Cached(r)) \/ Status(r) \in {422, 503})
            /\ Status(r) # 200
                  => \/ /\ Status(r) \in {400, 500}
                        /\ obs[r].memGets = 0
                        /\ obs[r].dbFinds = 0
                        /\ obs[r].computeCalls = 0
                     \/ /\ Status(r) \in {422, 503}
                        /\ obs[r].computeCalls = 1
                        /\ obs[r].dbCreates = 0

C7_Witness ==
    \E a, b \in Reqs :
        /\ a # b
        /\ Succeeded(a)
        /\ obs[a].findError = "unavailable"
        /\ Succeeded(b)
        /\ obs[b].createError = "unavailable"

----------------------------------------------------------------------------
(* C8: a run whose compute failed responds with an error and has written   *)
(* to neither tier; when its key was in neither tier at its arrival and no *)
(* other run has worked on the key, the key is still in neither tier; and  *)
(* the next run for that key invokes compute again. *)
C8_ComputeFailed(r) ==
    /\ Finished(r)
    /\ obs[r].computeCalls = 1
    /\ Status(r) # 200

C8_NothingCachedOnFailure ==
    \A r \in Reqs :
        C8_ComputeFailed(r) =>
            /\ obs[r].memSets = 0
            /\ obs[r].dbCreates = 0
            /\ obs[r].createError = ""
            /\ (BrandNew(r) /\ \A q \in Reqs \ {r} : ~SameKey(q, r))
                  => /\ ~MapHas(memoryCache, CacheKey(r))
                     /\ RowsOf(db, Val(req[r].resumeHash), Val(req[r].jobDescHash)) = {}
            /\ \A b \in Reqs \ {r} :
                  (/\ BrandNew(r)
                   /\ SameKey(r, b)
                   /\ r \in obs[b].after
                   /\ Alone(r, b)
                   /\ req[b].pc \in {"ai", "create", "created", "done"})
                  => obs[b].computeCalls = 1

C8_Witness ==
    \E r, b \in Reqs :
        /\ r # b
        /\ C8_ComputeFailed(r)
        /\ BrandNew(r)
        /\ Status(r) = 422
        /\ SameKey(r, b)
        /\ r \in obs[b].after
        /\ Succeeded(b)
        /\ obs[b].computeCalls = 1

----------------------------------------------------------------------------
(* C9: a request in which a text is missing or shorter than 50 characters  *)
(* is answered 400 VALIDATION_ERROR in the step of its arrival: no hash is *)
(* computed, no tier is read or written, compute is not called, and both   *)
(* tiers are unchanged. *)
C9_InvalidText(x) ==
    x.kind = "undefined" \/ (x.kind = "string" /\ x.length < 50)

C9_ValidationBeforeHashing ==
    [][\A r \in Reqs :
          (/\ req[r].pc = "idle"
           /\ req'[r].pc # "idle"
           /\ \/ C9_InvalidText(Bodies[req'[r].body].resumeText)
              \/ C9_InvalidText(Bodies[req'[r].body].jobDescText))
          => /\ req'[r].pc = "done"
             /\ req'[r].res = Some(ValidationResponse)
             /\ req'[r].resumeHash = None
             /\ req'[r].jobDescHash = None
             /\ obs'[r].hashCalls = 0
             /\ obs'[r].memGets = 0
             /\ obs'[r].memSets = 0
             /\ obs'[r].dbFinds = 0
             /\ obs'[r].dbCreates = 0
             /\ obs'[r].computeCalls = 0
             /\ memoryCache' = memoryCache
             /\ db' = db]_vars

C9_Witness ==
    \E r \in Reqs :
        /\ Finished(r)
        /\ Status(r) = 400
        /\ Bodies[req[r].body].resumeText.length = 40
        /\ obs[r].hashCalls = 0
        /\ DOMAIN memoryCache # {}

----------------------------------------------------------------------------
(* C10: a run is served from the Map only when the entry for its key is    *)
(* younger than CACHE_TTL, and the hit leaves the entry and its timestamp  *)
(* as they were; a run that finds the entry at that age or older is not    *)
(* served from it: it asks the database, invokes compute when the database *)
(* has no row, and on success replaces the entry by its own result with    *)
(* the timestamp of that moment. *)
C10_ExpiryFromInsertion ==
    [][\A r \in Reqs :
          /\ (/\ req[r].pc = "idle"
              /\ req'[r].pc = "done"
              /\ IsSome(req'[r].resumeHash)
              /\ IsSome(req'[r].jobDescHash)
              /\ Val(req'[r].res).status = 200)
             => LET k == CacheKeyOf(Val(req'[r].resumeHash), Val(req'[r].jobDescHash))
                IN  /\ k \in DOMAIN memoryCache
                    /\ now - memoryCache[k].timestamp < 24 * 60 * 60 * 1000
                    /\ memoryCache' = memoryCache
          /\ (/\ req[r].pc = "idle"
              /\ req'[r].pc # "idle"
              /\ IsSome(req'[r].resumeHash)
              /\ IsSome(req'[r].jobDescHash)
              /\ LET k == CacheKeyOf(Val(req'[r].resumeHash), Val(req'[r].jobDescHash))
                 IN  /\ k \in DOMAIN memoryCache
                     /\ now - memoryCache[k].timestamp >= 24 * 60 * 60 * 1000)
             => /\ req'[r].pc = "find"
                /\ obs'[r].dbFinds = 1
                /\ obs'[r].memAge >= 24 * 60 * 60 * 1000
          /\ (/\ obs[r].memAge >= 24 * 60 * 60 * 1000
              /\ req[r].pc = "found"
              /\ req'[r].pc \notin {"found", "dead"}
              /\ Val(req[r].reply).row = None)
             => /\ req'[r].pc = "ai"
                /\ obs'[r].computeCalls = 1
          /\ (/\ obs[r].memAge >= 24 * 60 * 60 * 1000
              /\ req[r].pc \in {"ai", "created"}
              /\ req'[r].pc = "done"
              /\ Val(req'[r].res).status = 200)
             => /\ MapHas(memoryCache', CacheKey(r))
                /\ memoryCache'[CacheKey(r)].timestamp = now
                /\ memoryCache'[CacheKey(r)].data = Val(Val(req'[r].res).data)
                /\ Val(Val(Val(req'[r].res).data).cached) = FALSE]_vars

C10_Witness ==
    \E r \in Reqs :
        /\ Succeeded(r)
        /\ obs[r].memAge >= 24 * 60 * 60 * 1000
        /\ ~Cached(r)
        /\ obs[r].computeCalls = 1
        /\ MapHas(memoryCache, CacheKey(r))
        /\ memoryCache[CacheKey(r)].timestamp = obs[r].finishedAt
        /\ memoryCache[CacheKey(r)].timestamp >= 24 * 60 * 60 * 1000

----------------------------------------------------------------------------
(* C11: a run whose analyzeGap returned a result writes that result to the *)
(* Map under its own key, with the timestamp of that moment, and responds  *)
(* with it and cached = false, whatever the database did: found            *)
(* unreachable by findUnique (the create is skipped), create succeeded,    *)
(* create failed on the unique index, create found it unreachable. *)
C11_Written(r) ==
    /\ req'[r].pc = "done"
    /\ Val(req'[r].res).status = 200
    /\ Val(Val(Val(req'[r].res).data).cached) = FALSE
    /\ MapHas(memoryCache', CacheKey(r))
    /\ memoryCache'[CacheKey(r)] = MemEntry(Val(Val(req'[r].res).data), now)
    /\ obs'[r].aiOutcome = "valid"

C11_MemoryWrittenAfterCompute ==
    [][\A r \in Reqs :
          /\ (req[r].pc = "ai" /\ req'[r].pc \notin {"ai", "dead"} /\ ~req[r].dbAvailable)
             => \/ /\ C11_Written(r)
                   /\ obs[r].findError = "unavailable"
                \/ /\ req'[r].pc = "done"
                   /\ Val(req'[r].res).status \in {422, 503}
          /\ (req[r].pc = "ai" /\ req'[r].pc \notin {"ai", "dead"} /\ req[r].dbAvailable)
             => \/ /\ req'[r].pc = "create"
                   /\ obs'[r].aiOutcome = "valid"
                \/ /\ req'[r].pc = "done"
                   /\ Val(req'[r].res).status \in {422, 503}
          /\ (req[r].pc = "created" /\ req'[r].pc \notin {"created", "dead"})
             => /\ C11_Written(r)
                /\ Payload(memoryCache'[CacheKey(r)].data) = Payload(Val(req[r].responseData))
                /\ Val(req[r].reply).error \in {"none", "unique", "unavailable"}]_vars

C11_Witness ==
    \E a, b \in Reqs :
        /\ a # b
        /\ Succeeded(a)
        /\ obs[a].createError = "unique"
        /\ MapHas(memoryCache, CacheKey(a))
        /\ memoryCache[CacheKey(a)].data = ResData(a)
        /\ Succeeded(b)
        /\ obs[b].createError = "none"

----------------------------------------------------------------------------
(* C12 *)

(* Two runs did not overlap in time: the earlier one had responded, or had *)
(* been abandoned at a restart, before the later one arrived. *)
NonOverlapping(p, q) ==
    \/ p \in obs[q].after
    \/ req[p].pc = "dead" /\ obs[p].epoch < obs[q].epoch

(* No two runs for the key of a overlapped in time. *)
SerialKey(a) ==
    \A p, q \in Reqs :
        (p < q /\ SameKey(p, a) /\ SameKey(q, a)) => NonOverlapping(p, q)

(* a computed successfully and b, for the same key, was called later and   *)
(* has responded; no two runs for the key overlapped. *)
C12_Later(a, b) ==
    /\ a < b
    /\ SameKey(a, b)
    /\ SerialKey(a)
    /\ Succeeded(a)
    /\ obs[a].computeCalls = 1
    /\ Finished(b)

(* C12 as claimed: among calls for one key that do not overlap in time,    *)
(* compute succeeds for the first only; every later call is served from a  *)
(* tier. *)
C12_ComputedOncePerKey ==
    \A a, b \in Reqs :
        C12_Later(a, b) =>
            /\ obs[b].computeCalls = 0
            /\ Succeeded(b)
            /\ Cached(b)

(* C12 as amended: among completed calls for one key that do not overlap   *)
(* in time, a call made after a successful compute is served from a tier   *)
(* without compute, unless a database call failed as unreachable (the      *)
(* findUnique or the create of the run that computed, or the findUnique of *)
(* the later run) and the entry of the Map has expired or the process has  *)
(* restarted: then compute is invoked again. *)
C12_RecomputeOnlyAfterStoreFailure ==
    \A a, b \in Reqs :
        C12_Later(a, b) =>
            IF obs[b].computeCalls = 0
            THEN Succeeded(b) /\ Cached(b)
            ELSE /\ \/ obs[a].findError = "unavailable"
                    \/ obs[a].createError = "unavailable"
                    \/ obs[b].findError = "unavailable"
                 /\ \/ obs[a].epoch # obs[b].epoch
                    \/ Gap(a, b) >= CACHE_TTL

C12_Witness ==
    \E a, b \in Reqs :
        /\ C12_Later(a, b)
        /\ obs[a].createError = "unavailable"
        /\ obs[a].epoch = obs[b].epoch
        /\ Gap(a, b) >= CACHE_TTL
        /\ obs[b].computeCalls = 1
        /\ Succeeded(b)

----------------------------------------------------------------------------
(* Key derivation on its own: the hashing lines of the handler applied to  *)
(* pairs of texts that differ in case, in white space at the edges, in     *)
(* white space inside and in punctuation. *)

TextAMixed == Str(<< <<"a", 30>>, <<"A", 30>> >>)

TextADot == Str(<< <<"a", 59>>, <<".", 1>> >>)

TextBTab == Str(<< <<"\t", 1>>, <<"B", 60>>, <<" ", 1>> >>)

TextSpaces == Str(<< <<" ", 60>> >>)

KeyTexts ==
    << TextA, TextAUpperPadded, TextAMixed, TextAInner, TextADot, TextB, TextBTab,
       TextSpaces, TextShort, TextEmpty >>

KeyBodyIds == 1..(Len(KeyTexts) * Len(KeyTexts))

KeyBody(i) ==
    [resumeText |-> KeyTexts[((i - 1) \div Len(KeyTexts)) + 1],
     jobDescText |-> KeyTexts[((i - 1) % Len(KeyTexts)) + 1]]

(* The handler up to the line that builds cacheKey. *)
DeriveKey(r, i) ==
    /\ req[r].pc = "idle"
    /\ Validate(KeyBody(i)) = "ok"
    /\ ~TrimThrows(KeyBody(i))
    /\ req' = [req EXCEPT ![r] =
                 [@ EXCEPT !.pc = "hashed", !.body = i,
                           !.resumeHash = Some(HashText(KeyBody(i).resumeText)),
                           !.jobDescHash = Some(HashText(KeyBody(i).jobDescText))]]
    /\ obs' = [obs EXCEPT ![r].hashCalls = 2]
    /\ UNCHANGED <<memoryCache, db, now, restarts>>

KeyNext == \E r \in Reqs, i \in KeyBodyIds : DeriveKey(r, i)

KeySpec == Init /\ [][KeyNext]_vars

----------------------------------------------------------------------------
(* C13: two requests get the same key exactly when their resume texts, and *)
(* their job description texts, are equal after lower-casing and removing  *)
(* the white space at both ends, the texts being taken character by        *)
(* character: case and edge white space do not change the key, anything    *)
(* else (white space inside, punctuation) does. *)
RECURSIVE C13_Chars(_)
C13_Chars(rs) ==
    IF rs = <<>> THEN <<>>
    ELSE [i \in 1..rs[1][2] |-> rs[1][1]] \o C13_Chars(Tail(rs))

C13_Lower(cs) ==
    [i \in 1..Len(cs) |-> IF cs[i] = "A" THEN "a" ELSE IF cs[i] = "B" THEN "b" ELSE cs[i]]

C13_Trimmed(cs) ==
    LET inked == {i \in 1..Len(cs) : cs[i] \notin {" ", "\t", "\n"}}
    IN  IF inked = {} THEN <<>>
        ELSE SubSeq(cs, CHOOSE i \in inked : \A j \in inked : i <= j,
                        CHOOSE i \in inked : \A j \in inked : i >= j)

C13_Form(text) == C13_Trimmed(C13_Lower(C13_Chars(text.runs)))

----------------------------------------------------------------------------
(* C14: the key is the pair (hash of the resume, hash of the job           *)
(* description) in that order: two requests whose texts are each other's   *)
(* with the roles swapped get different keys, each key being the other     *)
(* with its halves exchanged; a response is always an entry of the         *)
(* request's own pair; and a request for which no other run had the same   *)
(* key is never served from a tier, whatever the swapped pair has stored. *)
C14_Swapped(x, y) ==
    /\ Bodies[x].resumeText = Bodies[y].jobDescText
    /\ Bodies[x].jobDescText = Bodies[y].resumeText
    /\ Bodies[x].resumeText # Bodies[x].jobDescText

C14_KeyIsOrdered ==
    \A a, b \in Reqs :
        (HasKey(a) /\ HasKey(b) /\ C14_Swapped(req[a].body, req[b].body)) =>
            /\ CacheKey(a) # CacheKey(b)
            /\ req[a].resumeHash = req[b].jobDescHash
            /\ req[a].jobDescHash = req[b].resumeHash
            /\ Succeeded(b) =>
                  /\ ResData(b).resumeHash = Val(req[b].resumeHash)
                  /\ ResData(b).jobDescHash = Val(req[b].jobDescHash)
            /\ (Succeeded(b) /\ \A q \in Reqs \ {b} : ~SameKey(q, b)) =>
                  /\ ~Cached(b)
                  /\ obs[b].computeCalls = 1

C14_Witness ==
    \E a, b \in Reqs :
        /\ HasKey(a)
        /\ HasKey(b)
        /\ C14_Swapped(req[a].body, req[b].body)
        /\ Succeeded(a)
        /\ obs[a].createError = "none"
        /\ CalledAfter(a, b)
        /\ Gap(a, b) < CACHE_TTL
        /\ obs[b].memAge = -1
        /\ ~obs[b].dbHadRow
        /\ Succeeded(b)
        /\ ~Cached(b)
        /\ Cardinality(db) = 2

----------------------------------------------------------------------------
(* C15: whenever the AI returns output that fails the expected shape,      *)
(* output that cannot be parsed at all included, the request ends with     *)
(* 422 AI_VALIDATION_ERROR and nothing is cached.                          *)
C15_BadOutput(r) ==
    /\ Finished(r)
    /\ obs[r].aiOutcome \in {"invalid", "garbage"}

C15_MalformedIs422 ==
    \A r \in Reqs :
        C15_BadOutput(r) =>
            /\ Status(r) = 422
            /\ Code(r) = "AI_VALIDATION_ERROR"
            /\ obs[r].memSets = 0
            /\ obs[r].dbCreates = 0

----------------------------------------------------------------------------
(* C16: whenever the AI call itself throws, whatever the message of the    *)
(* underlying error, the request ends with 503 AI_SERVICE_ERROR, never     *)
(* with 422 or 500, and nothing is cached.                                 *)
C16_CallThrew(r) ==
    /\ Finished(r)
    /\ obs[r].aiOutcome = "throw"

C16_ThrowIs503 ==
    \A r \in Reqs :
        C16_CallThrew(r) =>
            /\ Status(r) = 503
            /\ Code(r) = "AI_SERVICE_ERROR"
            /\ obs[r].memSets = 0
            /\ obs[r].dbCreates = 0

----------------------------------------------------------------------------
(* C17: in every successful response the cached flag is true if and only   *)
(* if the response was served from the Map or from the table, that is, if  *)
(* and only if analyzeGap was not called during that request.              *)
C17_ServedFromTier(r) == ResData(r).id \notin {RandomUUID(r), RowId(r)}

C17_CachedIffNoCompute ==
    \A r \in Reqs :
        Succeeded(r) =>
            /\ Cached(r) <=> obs[r].computeCalls = 0
            /\ Cached(r) <=> C17_ServedFromTier(r)
            /\ Cached(r) => obs[r].dbCreates = 0

C17_Witness ==
    \E a, b \in Reqs :
        /\ Succeeded(a) /\ ~Cached(a) /\ obs[a].computeCalls = 1
        /\ Succeeded(b) /\ Cached(b) /\ obs[b].dbFinds = 0
        /\ ResData(b).id = ResData(a).id
        /\ MapHas(memoryCache, CacheKey(b))
        /\ memoryCache[CacheKey(b)].data.cached = Some(FALSE)

----------------------------------------------------------------------------
(* C18 *)

(* The run writes the Map in this step, on the path that called analyzeGap. *)
C18_MemoryWriteOnComputePath(r) ==
    /\ obs'[r].memSets = obs[r].memSets + 1
    /\ obs'[r].computeCalls = 1

(* create had been called and had returned or thrown before this step. *)
C18_CreateCompleted(r) ==
    /\ obs[r].dbCreates = 1
    /\ obs[r].createError \in {"none", "unique", "unavailable"}
    /\ req[r].pc = "created"

(* C18 as stated: every Map write on the compute path comes after a create *)
(* of the same request that was attempted and has completed. *)
C18_PersistAlwaysPrecedesMemory ==
    [][\A r \in Reqs :
          C18_MemoryWriteOnComputePath(r) => C18_CreateCompleted(r)]_vars

(* C18, amended: when findUnique of the request did not fail, create is    *)
(* attempted as analyzeGap returns and has completed, successfully or not, *)
(* before the Map is written; when findUnique failed, create is never      *)
(* attempted and the Map is written as analyzeGap returns; no Map write    *)
(* happens while create is pending. *)
C18_PersistPrecedesMemoryUnlessDegraded ==
    [][\A r \in Reqs :
          /\ C18_MemoryWriteOnComputePath(r) =>
                IF req[r].dbAvailable
                THEN /\ C18_CreateCompleted(r)
                     /\ obs[r].findError = "none"
                ELSE /\ obs[r].findError = "unavailable"
                     /\ req[r].pc = "ai"
                     /\ obs'[r].dbCreates = 0
                     /\ obs'[r].createError = ""
          /\ (req[r].pc = "ai" /\ req'[r].pc = "create") =>
                /\ req[r].dbAvailable
                /\ obs[r].dbCreates = 0
                /\ obs'[r].dbCreates = 1
                /\ obs'[r].memSets = 0
                /\ memoryCache' = memoryCache
          /\ (req[r].pc = "create" /\ req'[r].pc \notin {"create", "dead"}) =>
                /\ req'[r].pc = "created"
                /\ obs'[r].memSets = 0
                /\ memoryCache' = memoryCache]_vars

C18_Witness ==
    \E a, b \in Reqs :
        /\ Succeeded(a)
        /\ obs[a].computeCalls = 1
        /\ obs[a].findError = "unavailable"
        /\ obs[a].dbCreates = 0
        /\ obs[a].memSets = 1
        /\ Succeeded(b)
        /\ obs[b].computeCalls = 1
        /\ obs[b].findError = "none"
        /\ obs[b].dbCreates = 1
        /\ obs[b].createError = "unavailable"
        /\ obs[b].memSets = 1

----------------------------------------------------------------------------
(* The process starts over a table that an earlier lifetime of the process *)
(* has left a row in: the Map of the new process is empty, the row is the  *)
(* one that a run for (TextA, TextB) stored when the AI answered it        *)
(* GoodDocker. *)
WarmRow == Row(<<"row", 0>>, 0, HashText(TextA), HashText(TextB), GoodDocker)

InitWarm ==
    /\ memoryCache = EmptyMap
    /\ db = {WarmRow}
    /\ now = 0
    /\ restarts = 0
    /\ req = [r \in Reqs |-> InitReq]
    /\ obs = [r \in Reqs |-> InitObs]

SpecWarm == InitWarm /\ [][Next]_vars

----------------------------------------------------------------------------
(* C19: a request that arrives when the Map and the table both hold an     *)
(* entry for its key and the two entries disagree is answered with the     *)
(* payload of the table's row.                                             *)
C19_ArrivedOnDisagreement(r) ==
    /\ Succeeded(r)
    /\ obs[r].disagreed

C19_PersistentWinsOnDisagreement ==
    \A r \in Reqs :
        C19_ArrivedOnDisagreement(r) =>
            \A x \in RowsOf(db, Val(req[r].resumeHash), Val(req[r].jobDescHash)) :
                Payload(ResData(r)) = Payload(x)

----------------------------------------------------------------------------
(* C20: a run that missed the Map (no entry, or an expired one) and whose  *)
(* findUnique returned a row stores exactly that row in the Map under its  *)
(* key with the timestamp of that moment, responds with the row and        *)
(* cached = true, and calls neither analyzeGap nor create; a request for   *)
(* the same key called after that response, in the same process and less   *)
(* than the TTL later, is answered from the Map without any findUnique.    *)
C20_DbHit(r) ==
    /\ req[r].pc = "found"
    /\ req'[r].pc \notin {"found", "dead"}
    /\ Val(req[r].reply).error = "none"
    /\ IsSome(Val(req[r].reply).row)

C20_ServedFromTable(r) ==
    /\ Succeeded(r)
    /\ obs[r].dbFinds = 1
    /\ obs[r].computeCalls = 0

C20_WriteBack ==
    /\ [][\A r \in Reqs :
            C20_DbHit(r) =>
                LET x == Val(Val(req[r].reply).row) IN
                /\ obs[r].memAge = -1 \/ obs[r].memAge >= CACHE_TTL
                /\ x \in db
                /\ memoryCache' = MapSet(memoryCache, CacheKey(r), MemEntry(x, now))
                /\ req'[r].pc = "done"
                /\ req'[r].res = Some(OkResponse(WithCached(x, TRUE)))
                /\ obs'[r].memSets = 1
                /\ obs'[r].computeCalls = 0
                /\ obs'[r].dbCreates = 0
                /\ db' = db]_vars
    /\ [](\A a, b \in Reqs :
            (/\ C20_ServedFromTable(a)
             /\ Finished(b)
             /\ SameKey(a, b)
             /\ CalledAfter(a, b)
             /\ Gap(a, b) < CACHE_TTL) =>
                /\ Succeeded(b)
                /\ Cached(b)
                /\ obs[b].dbFinds = 0
                /\ obs[b].computeCalls = 0
                /\ obs[b].memAge \in 0..(CACHE_TTL - 1))

C20_Witness ==
    \E a, b \in Reqs :
        /\ C20_ServedFromTable(a)
        /\ Cached(a)
        /\ ResData(a).id = WarmRow.id
        /\ SameKey(a, b)
        /\ CalledAfter(a, b)
        /\ Gap(a, b) > 0
        /\ Gap(a, b) < CACHE_TTL
        /\ Succeeded(b)
        /\ Cached(b)
        /\ obs[b].dbFinds = 0
        /\ ResData(b) = ResData(a)

----------------------------------------------------------------------------
(* C21 *)

(* b is the first request for its key since the last restart, and the      *)
(* table had a row for the key when b arrived (requests arrive in the      *)
(* order of their slots). *)
C21_FirstAfterRestart(b) ==
    /\ Finished(b)
    /\ HasKey(b)
    /\ obs[b].epoch >= 1
    /\ obs[b].dbHadRow
    /\ \A q \in Reqs : (q < b /\ SameKey(q, b)) => obs[q].epoch < obs[b].epoch

C21_ServedFromTable(b) ==
    /\ Succeeded(b)
    /\ Cached(b)
    /\ obs[b].memAge = -1
    /\ obs[b].dbFinds = 1
    /\ obs[b].memSets = 1
    /\ obs[b].computeCalls = 0
    /\ obs[b].dbCreates = 0
    /\ [ResData(b) EXCEPT !.cached = None] \in db

(* C21 as stated: after a restart the next request for a key that has a    *)
(* row in the table is served from the table with cached = true, puts the  *)
(* row in the Map and does not call analyzeGap. *)
C21_RestartThenTableHit ==
    \A b \in Reqs : C21_FirstAfterRestart(b) => C21_ServedFromTable(b)

(* C21, amended: after a restart that request finds the Map empty and      *)
(* calls findUnique; when findUnique answers, the request is served from   *)
(* the table as stated; when findUnique fails, analyzeGap is called, no    *)
(* create is attempted and a successful response has cached = false. *)
C21_RestartThenTableHitIfReachable ==
    \A b \in Reqs :
        C21_FirstAfterRestart(b) =>
            /\ obs[b].memAge = -1
            /\ obs[b].dbFinds = 1
            /\ IF obs[b].findError = "none"
               THEN C21_ServedFromTable(b)
               ELSE /\ obs[b].findError = "unavailable"
                    /\ obs[b].computeCalls = 1
                    /\ obs[b].dbCreates = 0
                    /\ Succeeded(b) => (~Cached(b) /\ obs[b].memSets = 1)

(* The run a was abandoned between its create and its Map write. *)
C21_Witness ==
    \E a, b \in Reqs :
        /\ req[a].pc = "dead"
        /\ obs[a].createError = "none"
        /\ obs[a].memSets = 0
        /\ SameKey(a, b)
        /\ C21_FirstAfterRestart(b)
        /\ C21_ServedFromTable(b)
        /\ ResData(b).id = RowId(a)
        /\ MapHas(memoryCache, CacheKey(b))
        /\ WithCached(memoryCache[CacheKey(b)].data, TRUE) = ResData(b)

----------------------------------------------------------------------------
(* C22: a hit never modifies the entry it serves. A run answered from the  *)
(* Map leaves the Map (entries and timestamps) and the table as they were; *)
(* a run answered from the table leaves the table as it was, leaves every  *)
(* other key of the Map as it was, and puts under its own key the row      *)
(* itself, field for field; in both cases the response is the stored entry *)
(* with the cached flag added.                                             *)
C22_MemoryHitStep(r) ==
    /\ req[r].pc = "idle"
    /\ req'[r].pc = "done"
    /\ Val(req'[r].res).status = 200

C22_TableHitStep(r) ==
    /\ req[r].pc = "found"
    /\ req'[r].pc = "done"
    /\ Val(req'[r].res).status = 200

C22_HitsDoNotModifyEntries ==
    [][\A r \in Reqs :
          /\ C22_MemoryHitStep(r) =>
                LET k == CacheKeyOf(Val(req'[r].resumeHash), Val(req'[r].jobDescHash)) IN
                /\ MapHas(memoryCache, k)
                /\ memoryCache' = memoryCache
                /\ db' = db
                /\ [Val(Val(req'[r].res).data) EXCEPT !.cached = memoryCache[k].data.cached]
                      = memoryCache[k].data
          /\ C22_TableHitStep(r) =>
                LET k == CacheKey(r)
                    x == Val(Val(req[r].reply).row)
                IN
                /\ x \in db
                /\ db' = db
                /\ DOMAIN memoryCache' = DOMAIN memoryCache \cup {k}
                /\ \A k2 \in DOMAIN memoryCache \ {k} : memoryCache'[k2] = memoryCache[k2]
                /\ memoryCache'[k].data = x
                /\ [Val(Val(req'[r].res).data) EXCEPT !.cached = None] = x]_vars

(* One run was answered from the Map some time after the entry was stored, *)
(* another from the table, and the entry of the first is as it was stored. *)
C22_Witness ==
    \E a, b \in Reqs :
        /\ Succeeded(a)
        /\ Cached(a)
        /\ obs[a].dbFinds = 0
        /\ obs[a].memAge > 0
        /\ Succeeded(b)
        /\ Cached(b)
        /\ obs[b].dbFinds = 1
        /\ MapHas(memoryCache, CacheKey(b))
        /\ [ResData(b) EXCEPT !.cached = None] \in db

----------------------------------------------------------------------------
(* C23: a row of the table stays in the table, with its id and its         *)
(* payload, in every later state: no step deletes or changes a row, so     *)
(* there is never more than one row for a key and it is the first one      *)
(* stored; and a run answered from the table is answered with that row.    *)
C23_RowOfKey(table, x) == RowsOf(table, x.resumeHash, x.jobDescHash)

C23_RowsAreForever ==
    /\ [][/\ db \subseteq db'
          /\ \A x \in db : C23_RowOfKey(db', x) = {x}]_vars
    /\ [](\A r \in Reqs :
            (Succeeded(r) /\ obs[r].dbFinds = 1 /\ obs[r].computeCalls = 0) =>
                /\ [ResData(r) EXCEPT !.cached = None] \in db
                /\ RowsOf(db, Val(req[r].resumeHash), Val(req[r].jobDescHash))
                      = {[ResData(r) EXCEPT !.cached = None]})

(* A second create for the key of a stored row was attempted with another *)
(* payload and time has passed: the row is the one first stored. *)
C23_Witness ==
    \E a, b \in Reqs :
        /\ Succeeded(a)
        /\ obs[a].createError = "none"
        /\ Succeeded(b)
        /\ obs[b].createError = "unique"
        /\ SameKey(a, b)
        /\ Payload(ResData(b)) # Payload(ResData(a))
        /\ now > 0
        /\ db = {[ResData(a) EXCEPT !.cached = None]}
        /\ ResData(a).id = RowId(a)

----------------------------------------------------------------------------
(* C24: there is no single flight. A run that has read the Map and not yet *)
(* written it is suspended at findUnique, at analyzeGap or at create, and  *)
(* a run whose findUnique found no row goes on to call analyzeGap whatever *)
(* the other runs are doing: two runs for the same key, new to both tiers, *)
(* can be inside analyzeGap at the same time (the witness).                *)
C24_TableMissStep(r) ==
    /\ req[r].pc = "found"
    /\ req'[r].pc \notin {"found", "dead"}
    /\ Val(req[r].reply).error = "none"
    /\ Val(req[r].reply).row = None

C24_NoSingleFlight ==
    /\ [][\A r \in Reqs :
            C24_TableMissStep(r) =>
                /\ req'[r].pc = "ai"
                /\ obs'[r].computeCalls = 1
                /\ memoryCache' = memoryCache]_vars
    /\ [](\A r \in Reqs :
            InFlight(r) => (obs[r].memGets = 1 /\ obs[r].memSets = 0))

C24_Witness ==
    \E a, b \in Reqs :
        /\ a # b
        /\ SameKey(a, b)
        /\ BrandNew(a)
        /\ BrandNew(b)
        /\ req[a].pc = "ai"
        /\ req[b].pc = "ai"
        /\ obs[a].findError = "none"
        /\ obs[b].findError = "none"
        /\ obs[a].computeCalls = 1
        /\ obs[b].computeCalls = 1
        /\ ~MapHas(memoryCache, CacheKey(a))
        /\ db = {}

----------------------------------------------------------------------------
(* C25: requests are isolated per key. In a step of the handler the Map    *)
(* loses no key, the table loses no row, and an entry of the Map or a row  *)
(* of the table that is new or changed is under the key of the run that    *)
(* took the step; every entry of the Map and every row carries the hashes  *)
(* of the key it is stored under; and a successful response carries the    *)
(* hashes of its own request and the id given by a run for the same key.   *)
C25_Moved(r) == req'[r] # req[r] /\ IsSome(req'[r].resumeHash) /\ IsSome(req'[r].jobDescHash)

C25_KeyAfter(r) == CacheKeyOf(Val(req'[r].resumeHash), Val(req'[r].jobDescHash))

C25_IsolatedPerKey ==
    /\ [][restarts' = restarts =>
            /\ DOMAIN memoryCache \subseteq DOMAIN memoryCache'
            /\ db \subseteq db'
            /\ \A k \in DOMAIN memoryCache' :
                  (k \notin DOMAIN memoryCache \/ memoryCache'[k] # memoryCache[k]) =>
                      \E r \in Reqs : C25_Moved(r) /\ C25_KeyAfter(r) = k
            /\ \A x \in db' \ db :
                  \E r \in Reqs : /\ C25_Moved(r)
                                  /\ x.resumeHash = Val(req'[r].resumeHash)
                                  /\ x.jobDescHash = Val(req'[r].jobDescHash)]_vars
    /\ [](/\ \A k \in DOMAIN memoryCache :
                CacheKeyOf(memoryCache[k].data.resumeHash,
                           memoryCache[k].data.jobDescHash) = k
          /\ \A r \in Reqs :
                Succeeded(r) =>
                    /\ ResData(r).resumeHash = Val(req[r].resumeHash)
                    /\ ResData(r).jobDescHash = Val(req[r].jobDescHash)
                    /\ \E q \in Reqs :
                          /\ SameKey(q, r)
                          /\ ResData(r).id \in {RandomUUID(q), RowId(q)})

(* Runs for two different keys were in flight together, on different       *)
(* paths, and each tier holds one entry per key. *)
C25_Witness ==
    \E a, b \in Reqs :
        /\ HasKey(a)
        /\ HasKey(b)
        /\ CacheKey(a) # CacheKey(b)
        /\ Succeeded(a)
        /\ Succeeded(b)
        /\ a \notin obs[b].after
        /\ b \notin obs[a].after
        /\ obs[a].findError = "unavailable"
        /\ obs[b].createError = "none"
        /\ DOMAIN memoryCache = {CacheKey(a), CacheKey(b)}
        /\ memoryCache[CacheKey(a)].data = ResData(a)
        /\ memoryCache[CacheKey(b)].data = ResData(b)
        /\ Cardinality(db) = 1

----------------------------------------------------------------------------
(* The server while the process stays up: requests arrive, the database    *)
(* and the AI answer or fail, time passes. Every call a run is waiting on  *)
(* settles, and the event loop resumes every run whose call has settled.   *)
LiveNext ==
    \/ \E r \in Reqs, b \in BodyIds : Receive(r, b)
    \/ \E r \in Reqs : DbFindUnique(r)
    \/ \E r \in Reqs : AfterFind(r)
    \/ \E r \in Reqs, ai \in AiBehaviours : AiSettles(r, ai)
    \/ \E r \in Reqs : DbCreate(r)
    \/ \E r \in Reqs : AfterCreate(r)
    \/ Tick

Fairness ==
    \A r \in Reqs :
        /\ WF_vars(DbFindUnique(r))
        /\ WF_vars(AfterFind(r))
        /\ WF_vars(\E ai \in AiBehaviours : AiSettles(r, ai))
        /\ WF_vars(DbCreate(r))
        /\ WF_vars(AfterCreate(r))

LiveSpec == Init /\ [][LiveNext]_vars /\ Fairness

----------------------------------------------------------------------------
(* C26: every request that has arrived is eventually answered, whatever    *)
(* the other requests, the database and the AI do; the answer is given     *)
(* once and never changes; and it is a 200 with the analysis or one of the *)
(* errors 400 VALIDATION_ERROR, 422 AI_VALIDATION_ERROR,                   *)
(* 503 AI_SERVICE_ERROR, 500 INTERNAL_ERROR, carrying its code and no data. *)
C26_Structured(res) ==
    \/ res.status = 200 /\ res.code = "OK" /\ IsSome(res.data)
    \/ /\ <<res.status, res.code>> \in {<<400, "VALIDATION_ERROR">>,
                                         <<422, "AI_VALIDATION_ERROR">>,
                                         <<503, "AI_SERVICE_ERROR">>,
                                         <<500, "INTERNAL_ERROR">>}
       /\ res.data = None

C26_AlwaysAnswered ==
    /\ \A r \in Reqs : (req[r].pc # "idle") ~> Finished(r)
    /\ [][\A r \in Reqs :
            /\ IsSome(req[r].res) => req'[r] = req[r]
            /\ IsSome(req'[r].res) <=> req'[r].pc = "done"]_vars
    /\ [](\A r \in Reqs : Finished(r) => C26_Structured(Val(req[r].res)))

(* Two requests were in flight together: one was answered 500 before any  *)
(* await, the other found the database unreachable, waited on the AI and   *)
(* was answered 503. *)
C26_Witness ==
    \E a, b \in Reqs :
        /\ Finished(a)
        /\ Finished(b)
        /\ Status(a) = 500
        /\ Status(b) = 503
        /\ obs[b].findError = "unavailable"
        /\ b \notin obs[a].after

====
